---------------------------- MODULE Spec2Model ----------------------------
(***************************************************************************)
(* PdfTextExtractor (src/pdfTextExtractor.js): a Lightning web component   *)
(* that reads a PDF file, walks its pages through PDF.js and stores the    *)
(* extracted text.  The file holds two drafts of the component: the first  *)
(* (lines 1-180) renders positioned HTML ("layout"), the second (lines     *)
(* 181-327) plain text ("text").  A behaviour of this model is one         *)
(* component instance of one of the two drafts.                            *)
(*                                                                         *)
(* A JavaScript string is modelled as a sequence of tokens whose           *)
(* concatenation is the string.  Every chunk of a template literal or      *)
(* string literal of the source is ONE token (copied character for         *)
(* character), every character that comes from a document (item text,      *)
(* font name) and every character of a formatted number is a token of      *)
(* length one.  Numbers are integers (PDF.js hands out doubles; the model  *)
(* covers the values that are whole).                                      *)
(***************************************************************************)
EXTENDS Integers, Sequences, FiniteSets, TLC

\* ------------------------------------------------------------------ bounds

\* User events (file chosen in the browse dialog, file dropped) per behaviour.
MaxCalls == 2

\* renderedCallback runs that start initializePDFJS per behaviour.
MaxLoads == 1

\* Pages of the longest document the user can pick.
MaxPages == 2

\* ----------------------------------------------------------------- strings

Empty == << >>

RECURSIVE Digits(_)
\* The decimal digits of n >= 0, most significant first.
Digits(n) ==
    LET d == <<"0", "1", "2", "3", "4", "5", "6", "7", "8", "9">>[(n % 10) + 1]
    IN  IF n < 10 THEN <<d>> ELSE Digits(n \div 10) \o <<d>>

\* `${n}` of a whole number: Number::toString.
NumToStr(n) == IF n < 0 THEN <<"-">> \o Digits(0 - n) ELSE Digits(n)

RECURSIVE Join(_, _)
\* Array.prototype.join: the elements with sep between neighbours.
Join(parts, sep) ==
    IF Len(parts) = 0 THEN Empty
    ELSE IF Len(parts) = 1 THEN parts[1]
    ELSE parts[1] \o sep \o Join(Tail(parts), sep)

\* ------------------------------------------------- template literal chunks

PageOpenWidth ==
    "<div class=\"pdf-page\" style=\"\n                            position: relative;\n                            width: "

PageOpenHeight == "px;\n                            height: "

PageOpenEnd ==
    "px;\n                            border: 1px solid #ddd;\n                            margin: 20px auto;\n                            background: white;\n                            overflow: hidden;\n                        \">"

ItemLeft ==
    "\n                                <div style=\"\n                                    position: absolute;\n                                    left: "

ItemTop == "px;\n                                    top: "

ItemFontSize == "px;\n                                    font-size: "

ItemFontFamily == "px;\n                                    font-family: "

ItemBody ==
    ";\n                                    white-space: nowrap;\n                                \">\n                                    "

ItemClose == "\n                                </div>"

PageClose == "</div>"

ItemSpace == " "

PageSeparator == "\n\n"

\* --------------------------------------------------- the engine's documents

Item(str, transform, fontName) ==
    [str |-> str, transform |-> transform, fontName |-> fontName]

Page(width, height, items) ==
    [viewport |-> [width |-> width, height |-> height], items |-> items]

\* The pages documents are cut from: the two pages of the specification's
\* scenario, a page without text, and a page whose items carry markup
\* characters, a blank inside the text and an item above the viewport.
BasePages ==
    << Page(612, 792, << Item(<<"H", "e", "l", "l", "o">>,
                              <<12, 0, 0, 12, 10, 780>>, <<"f", "1">>) >>),
       Page(400, 500, << Item(<<"W", "o", "r", "l", "d">>,
                              <<10, 0, 0, 10, 5, 100>>, <<"f", "2">>) >>),
       Page(300, 200, << >>),
       Page(100, 50,  << Item(<<"a", "<", "b">>,
                              <<8, 0, 0, 8, 0, 60>>, <<"F", "&">>),
                         Item(<<"c", " ", "d">>,
                              <<9, 0, 0, 9, 20, 50>>, <<"f", "1">>) >>) >>

\* A document: its pages, 1-based (pdf.numPages = Len(pages)).
Docs ==
    { [pages |-> SubSeq(BasePages, a, b)] :
        a \in 1..Len(BasePages),
        b \in 1..Len(BasePages) } \ { [pages |-> << >>] }

PickableDocs == { d \in Docs : Len(d.pages) <= MaxPages }

ScenarioDoc == [pages |-> SubSeq(BasePages, 1, 2)]

NoDoc == [pages |-> << >>]


\* A File of the browse dialog or of a drop: files[0] may be missing
\* (present = FALSE), and file.type need not be a PDF's.
PdfFile(doc) == [present |-> TRUE, type |-> "application/pdf", doc |-> doc]

OtherFile == [present |-> TRUE, type |-> "text/plain", doc |-> NoDoc]

NoFile == [present |-> FALSE, type |-> "", doc |-> NoDoc]

\* What the user may choose from in one behaviour: one PDF, a file that is
\* no PDF, and no file at all.
Disks == { {PdfFile(d), OtherFile, NoFile} : d \in PickableDocs }

\* ------------------------------------------------------------------ errors

Error(message) == [message |-> message]

NoError == Error("")

\* What PDF.js rejects the promise of a request with, when it does.
EngineError(op) ==
    CASE op = "getDocument"    -> Error("Invalid PDF structure.")
      [] op = "getPage"        -> Error("Invalid page request.")
      [] op = "getTextContent" -> Error("Transport destroyed")

ReadError == Error("Failed to read file")

\* ------------------------------------------------- the engine (PDF.js) API

\* loadingTask.promise: the document of the file's bytes.
GetDocument(file) == file.doc

NumPages(pdf) == Len(pdf.pages)

\* pdf.getPage(i), i in 1..numPages.
GetPage(pdf, i) == pdf.pages[i]

\* page.getViewport({ scale: 1.5 }): the page's rectangle at that scale, as
\* the engine reports it.
GetViewport(page) == page.viewport

\* page.getTextContent(): { items }.
GetTextContent(page) == [items |-> page.items]

\* ------------------------------------------------- text draft, lines 300-301

\* textContent.items.map(item => item.str)
TextItems(textContent) ==
    [k \in 1..Len(textContent.items) |-> textContent.items[k].str]

\* As TextPageChunk, had the items been joined with '' instead of ' '.
TextPageChunkUnspaced(textContent) ==
    Join(TextItems(textContent), Empty) \o <<PageSeparator>>

\* textItems.join(' ') + '\n\n'
TextPageChunk(textContent) ==
    Join(TextItems(textContent), <<ItemSpace>>) \o <<PageSeparator>>

\* ----------------------------------------------- layout draft, lines 122-152

\* As PageHtmlOpen, had width and height been taken for one another.
PageHtmlOpenSwapped(viewport) ==
    <<PageOpenWidth>> \o NumToStr(viewport.height)
        \o <<PageOpenHeight>> \o NumToStr(viewport.width)
        \o <<PageOpenEnd>>

\* The opening tag of the page container.
PageHtmlOpen(viewport) ==
    <<PageOpenWidth>> \o NumToStr(viewport.width)
        \o <<PageOpenHeight>> \o NumToStr(viewport.height)
        \o <<PageOpenEnd>>

\* const x = transform[4] (JavaScript counts from 0).
ItemX(item) == item.transform[5]

\* As ItemY, had the Y axis not been flipped.
ItemYUnflipped(item, viewport) == item.transform[6]

\* const y = viewport.height - transform[5]
ItemY(item, viewport) == viewport.height - item.transform[6]

\* const fontSize = transform[0]
ItemFontSizeOf(item) == item.transform[1]

\* The positioned node of one text item; str and fontName are interpolated
\* as they are.
ItemHtml(item, viewport) ==
    <<ItemLeft>> \o NumToStr(ItemX(item))
        \o <<ItemTop>> \o NumToStr(ItemY(item, viewport))
        \o <<ItemFontSize>> \o NumToStr(ItemFontSizeOf(item))
        \o <<ItemFontFamily>> \o item.fontName
        \o <<ItemBody>> \o item.str
        \o <<ItemClose>>

RECURSIVE ForEachItem(_, _, _)
\* textContent.items.forEach(item => { pageHtml += ... })
ForEachItem(items, viewport, pageHtml) ==
    IF Len(items) = 0 THEN pageHtml
    ELSE ForEachItem(Tail(items), viewport,
                     pageHtml \o ItemHtml(Head(items), viewport))

\* pageHtml after the item loop and the closing tag.
LayoutPageChunk(viewport, textContent) ==
    ForEachItem(textContent.items, viewport, PageHtmlOpen(viewport))
        \o <<PageClose>>

\* What one pass of the page loop appends to fullText / extractedData.
PageChunk(mode, page) ==
    IF mode = "text"
    THEN TextPageChunk(GetTextContent(page))
    ELSE LayoutPageChunk(GetViewport(page), GetTextContent(page))

\* ------------------------------------------------------------------- state

VARIABLES
    draft,          \* "layout" (lines 1-180) or "text" (lines 181-327)
    disk,           \* the files the user chooses from
    pdfjsLib,       \* this.pdfjsLib is set
    pendingLoads,   \* loadScript promises not yet settled
    loads,          \* initializePDFJS runs so far
    isLoading,      \* this.isLoading
    extractedText,  \* this.extractedText
    toasts,         \* ShowToastEvents dispatched, oldest first
    uncaught,       \* exceptions that left an event handler
    events,         \* user events so far
    calls           \* processPDF calls that passed the library guard

vars == <<draft, disk, pdfjsLib, pendingLoads, loads, isLoading, extractedText,
          toasts, uncaught, events, calls>>

Toast(title, message, variant) ==
    [title |-> title, message |-> message, variant |-> variant]

\* showToast: dispatchEvent(new ShowToastEvent(...)).
ShowToast(title, message, variant) ==
    toasts' = Append(toasts, Toast(title, message, variant))

Pending == [kind |-> "pending", text |-> Empty, error |-> NoError]

Resolved(text) == [kind |-> "resolved", text |-> text, error |-> NoError]

Rejected(error) == [kind |-> "rejected", text |-> Empty, error |-> error]

\* The log entry of one engine request: op, page index, and whether it is the
\* call, its fulfilment or its rejection.
Ev(op, page, what) == <<op, page, what>>

CallIds == 1..Len(calls)

Init ==
    /\ draft \in {"layout", "text"}
    /\ disk \in Disks
    /\ pdfjsLib = FALSE
    /\ pendingLoads = 0
    /\ loads = 0
    /\ isLoading = FALSE
    /\ extractedText = Empty
    /\ toasts = << >>
    /\ uncaught = << >>
    /\ events = 0
    /\ calls = << >>

\* ------------------------------------------------------- loading the library

\* renderedCallback: start initializePDFJS unless the library is set.
RenderedCallback ==
    /\ ~pdfjsLib
    /\ loads < MaxLoads
    /\ loads' = loads + 1
    /\ pendingLoads' = pendingLoads + 1
    /\ UNCHANGED <<draft, disk, pdfjsLib, isLoading, extractedText, toasts,
                   uncaught, events, calls>>

\* initializePDFJS after loadScript: window.pdfjsLib is there.
ScriptLoaded ==
    /\ pendingLoads > 0
    /\ pendingLoads' = pendingLoads - 1
    /\ pdfjsLib' = TRUE
    /\ UNCHANGED <<draft, disk, loads, isLoading, extractedText, toasts, uncaught,
                   events, calls>>

\* initializePDFJS when loadScript rejects or window.pdfjsLib is undefined:
\* the catch block.
ScriptFailed ==
    /\ pendingLoads > 0
    /\ pendingLoads' = pendingLoads - 1
    /\ ShowToast("Error", <<"Failed to load PDF library">>, "error")
    /\ UNCHANGED <<draft, disk, pdfjsLib, loads, isLoading, extractedText,
                   uncaught, events, calls>>

\* ------------------------------------------------------------- user events

\* As FreshText, had the text been accumulated on top of what the component
\* holds instead of in a local.
StaleText(held) == held

\* const fullText = '' / let extractedData = '': a fresh local of each run of
\* the onload handler, whatever the component holds at that moment.
FreshText(held) == Empty

\* A call of processPDF that passed the guard, up to its first await:
\* extractTextFromPDF has built the FileReader and asked it for the bytes.
NewCall(file) ==
    [file |-> file, pc |-> "reading", pdf |-> NoDoc, i |-> 0, acc |-> Empty,
     log |-> << >>, thrown |-> NoError, settled |-> Pending,
     writes |-> <<Empty>>]

\* processPDF(file), the part that runs before the first await.
ProcessPDF(file) ==
    IF ~pdfjsLib
    THEN /\ ShowToast("Error",
                      <<"PDF.js library not loaded yet. Please try again.">>,
                      "error")
         /\ UNCHANGED <<isLoading, extractedText, calls>>
    ELSE /\ isLoading' = TRUE
         /\ extractedText' = Empty
         /\ calls' = Append(calls, NewCall(file))
         /\ UNCHANGED toasts

\* if (file && file.type === 'application/pdf')
IsPdf(file) == file.present /\ file.type = "application/pdf"

\* The change listener of handleBrowseClick's file input.
HandleBrowseChange(file) ==
    /\ events < MaxCalls
    /\ events' = events + 1
    /\ IF IsPdf(file)
       THEN ProcessPDF(file)
       ELSE /\ ShowToast("Error", <<"Please upload a PDF file">>, "error")
            /\ UNCHANGED <<isLoading, extractedText, calls>>
    /\ UNCHANGED <<draft, disk, pdfjsLib, pendingLoads, loads, uncaught>>

\* handleDrop: this.toggleDropAreaHighlight is defined nowhere in the class,
\* so the call on line 70 (250) throws a TypeError before the file is looked
\* at, and the handler ends there.
HandleDrop(file) ==
    /\ events < MaxCalls
    /\ events' = events + 1
    /\ uncaught' = Append(uncaught,
                     "TypeError: this.toggleDropAreaHighlight is not a function")
    /\ UNCHANGED <<draft, disk, pdfjsLib, pendingLoads, loads, isLoading,
                   extractedText, toasts, calls>>

\* ------------------------------------------------------- extractTextFromPDF

\* calls with call c replaced by the record r.
SetCall(c, r) == calls' = [calls EXCEPT ![c] = r]

\* reject(error) inside extractTextFromPDF: the promise is rejected with the
\* very error that was caught.
Reject(call, error) ==
    [call EXCEPT !.pc = "rejected", !.settled = Rejected(error)]

\* resolve(fullText)
Resolve(call) ==
    [call EXCEPT !.pc = "resolved", !.settled = Resolved(call.acc)]

\* As LoopHead, had the loop condition been i < pdf.numPages.
LoopHeadShort(call, i) ==
    IF i < NumPages(call.pdf)
    THEN [call EXCEPT !.pc = "awaitPage", !.i = i,
                      !.log = Append(call.log, Ev("getPage", i, "call"))]
    ELSE Resolve([call EXCEPT !.i = i])

\* The head of the page loop with the index at i: ask for page i, or leave the
\* loop and resolve.
LoopHead(call, i) ==
    IF i <= NumPages(call.pdf)
    THEN [call EXCEPT !.pc = "awaitPage", !.i = i,
                      !.log = Append(call.log, Ev("getPage", i, "call"))]
    ELSE Resolve([call EXCEPT !.i = i])

\* fileReader.onload up to `await loadingTask.promise`.
ReaderLoaded(c) ==
    /\ calls[c].pc = "reading"
    /\ SetCall(c, [calls[c] EXCEPT !.pc = "awaitDoc"])
    /\ UNCHANGED <<draft, disk, pdfjsLib, pendingLoads, loads, isLoading,
                   extractedText, toasts, uncaught, events>>

\* fileReader.onerror
ReaderFailed(c) ==
    /\ calls[c].pc = "reading"
    /\ SetCall(c, Reject(calls[c], ReadError))
    /\ UNCHANGED <<draft, disk, pdfjsLib, pendingLoads, loads, isLoading,
                   extractedText, toasts, uncaught, events>>

\* loadingTask.promise fulfils: the accumulator starts empty and the loop
\* starts at page 1.
DocumentLoaded(c) ==
    /\ calls[c].pc = "awaitDoc"
    /\ SetCall(c, LoopHead([calls[c] EXCEPT
                               !.pdf = GetDocument(calls[c].file),
                               !.acc = FreshText(extractedText)], 1))
    /\ UNCHANGED <<draft, disk, pdfjsLib, pendingLoads, loads, isLoading,
                   extractedText, toasts, uncaught, events>>

\* loadingTask.promise rejects.
DocumentFailed(c) ==
    /\ calls[c].pc = "awaitDoc"
    /\ LET e == EngineError("getDocument")
       IN  SetCall(c, Reject([calls[c] EXCEPT !.thrown = e], e))
    /\ UNCHANGED <<draft, disk, pdfjsLib, pendingLoads, loads, isLoading,
                   extractedText, toasts, uncaught, events>>

\* pdf.getPage(i) fulfils; the text draft asks for the text content at once,
\* the layout draft after taking the viewport.
PageFetched(c) ==
    /\ calls[c].pc = "awaitPage"
    /\ SetCall(c, [calls[c] EXCEPT
                      !.pc = "awaitText",
                      !.log = calls[c].log
                                \o << Ev("getPage", calls[c].i, "done"),
                                      Ev("getTextContent", calls[c].i, "call") >>])
    /\ UNCHANGED <<draft, disk, pdfjsLib, pendingLoads, loads, isLoading,
                   extractedText, toasts, uncaught, events>>

\* As PageFailed, had the failure been caught inside the loop and the page
\* been skipped.
PageFailedSkipped(c) ==
    /\ calls[c].pc = "awaitPage"
    /\ LET e == EngineError("getPage")
       IN  SetCall(c, LoopHead([calls[c] EXCEPT
                                   !.thrown = e,
                                   !.log = Append(calls[c].log,
                                             Ev("getPage", calls[c].i, "failed"))],
                               calls[c].i + 1))
    /\ UNCHANGED <<draft, disk, pdfjsLib, pendingLoads, loads, isLoading,
                   extractedText, toasts, uncaught, events>>

\* pdf.getPage(i) rejects: the catch block.
PageFailed(c) ==
    /\ calls[c].pc = "awaitPage"
    /\ LET e == EngineError("getPage")
       IN  SetCall(c, Reject([calls[c] EXCEPT
                                 !.thrown = e,
                                 !.log = Append(calls[c].log,
                                           Ev("getPage", calls[c].i, "failed"))],
                             e))
    /\ UNCHANGED <<draft, disk, pdfjsLib, pendingLoads, loads, isLoading,
                   extractedText, toasts, uncaught, events>>

\* page.getTextContent() fulfils: the rest of the loop body, i++, and the loop
\* head again.
TextFetched(c) ==
    /\ calls[c].pc = "awaitText"
    /\ LET call == calls[c]
           page == GetPage(call.pdf, call.i)
       IN  SetCall(c, LoopHead([call EXCEPT
                                   !.acc = call.acc \o PageChunk(draft, page),
                                   !.log = Append(call.log,
                                             Ev("getTextContent", call.i, "done"))],
                               call.i + 1))
    /\ UNCHANGED <<draft, disk, pdfjsLib, pendingLoads, loads, isLoading,
                   extractedText, toasts, uncaught, events>>

\* page.getTextContent() rejects: the catch block.
TextFailed(c) ==
    /\ calls[c].pc = "awaitText"
    /\ LET e == EngineError("getTextContent")
       IN  SetCall(c, Reject([calls[c] EXCEPT
                                 !.thrown = e,
                                 !.log = Append(calls[c].log,
                                           Ev("getTextContent", calls[c].i, "failed"))],
                             e))
    /\ UNCHANGED <<draft, disk, pdfjsLib, pendingLoads, loads, isLoading,
                   extractedText, toasts, uncaught, events>>

\* ------------------------------------------- processPDF after its await

\* The promise fulfilled: this.extractedText = text, then the finally block.
ProcessFulfilled(c) ==
    /\ calls[c].pc = "resolved"
    /\ extractedText' = calls[c].settled.text
    /\ isLoading' = FALSE
    /\ SetCall(c, [calls[c] EXCEPT
                      !.pc = "done",
                      !.writes = Append(calls[c].writes, calls[c].settled.text)])
    /\ UNCHANGED <<draft, disk, pdfjsLib, pendingLoads, loads, toasts, uncaught,
                   events>>

\* The promise rejected: the catch block's toast, then the finally block.
ProcessRejected(c) ==
    /\ calls[c].pc = "rejected"
    /\ ShowToast("Error",
                 <<"Failed to extract text from PDF. ",
                   calls[c].settled.error.message>>,
                 "error")
    /\ isLoading' = FALSE
    /\ SetCall(c, [calls[c] EXCEPT !.pc = "failed"])
    /\ UNCHANGED <<draft, disk, pdfjsLib, pendingLoads, loads, extractedText,
                   uncaught, events>>

\* ------------------------------------------------------------ specification

Next ==
    \/ RenderedCallback
    \/ ScriptLoaded
    \/ ScriptFailed
    \/ \E file \in disk : HandleBrowseChange(file)
    \/ \E file \in disk : HandleDrop(file)
    \/ \E c \in CallIds : ReaderLoaded(c)
    \/ \E c \in CallIds : ReaderFailed(c)
    \/ \E c \in CallIds : DocumentLoaded(c)
    \/ \E c \in CallIds : DocumentFailed(c)
    \/ \E c \in CallIds : PageFetched(c)
    \/ \E c \in CallIds : PageFailed(c)
    \/ \E c \in CallIds : TextFetched(c)
    \/ \E c \in CallIds : TextFailed(c)
    \/ \E c \in CallIds : ProcessFulfilled(c)
    \/ \E c \in CallIds : ProcessRejected(c)

Spec == Init /\ [][Next]_vars

\* The reader and the engine answer every request, and a settled promise's
\* continuation runs: the steps of call c that are not the user's.
Progress(c) ==
    /\ c \in CallIds
    /\ \/ ReaderLoaded(c) \/ ReaderFailed(c)
       \/ DocumentLoaded(c) \/ DocumentFailed(c)
       \/ PageFetched(c) \/ PageFailed(c)
       \/ TextFetched(c) \/ TextFailed(c)
       \/ ProcessFulfilled(c) \/ ProcessRejected(c)

FairSpec == Spec /\ \A c \in 1..MaxCalls : WF_vars(Progress(c))

\* ------------------------------------------------- reading an output back

Min(S) == CHOOSE x \in S : \A y \in S : x <= y

\* The first position after p at which s holds token t; Len(s) + 1 if none.
FirstAfter(s, t, p) ==
    LET hits == { q \in (p + 1)..Len(s) : s[q] = t }
    IN  IF hits = {} THEN Len(s) + 1 ELSE Min(hits)

\* The tokens strictly between positions p and q.
Between(s, p, q) == SubSeq(s, p + 1, q - 1)

RECURSIVE PositionsFrom(_, _, _)
\* The positions >= p at which s holds token t, ascending.
PositionsFrom(s, t, p) ==
    IF p > Len(s) THEN << >>
    ELSE (IF s[p] = t THEN <<p>> ELSE << >>) \o PositionsFrom(s, t, p + 1)

Positions(s, t) == PositionsFrom(s, t, 1)

RECURSIVE SplitOn(_, _)
\* s cut at every token sep: one piece more than there are separators.
SplitOn(s, sep) ==
    LET p == FirstAfter(s, sep, 0)
    IN  IF p > Len(s) THEN <<s>>
        ELSE <<SubSeq(s, 1, p - 1)>> \o SplitOn(SubSeq(s, p + 1, Len(s)), sep)

DigitChars == <<"0", "1", "2", "3", "4", "5", "6", "7", "8", "9">>

IsDigit(ch) == \E v \in 1..10 : DigitChars[v] = ch

DigitVal(ch) == (CHOOSE v \in 1..10 : DigitChars[v] = ch) - 1

RECURSIVE NatOf(_)
NatOf(ts) ==
    IF Len(ts) = 0 THEN 0
    ELSE NatOf(SubSeq(ts, 1, Len(ts) - 1)) * 10 + DigitVal(ts[Len(ts)])

\* The whole number a token sequence spells: [ok, value].
ParseNum(ts) ==
    LET neg    == Len(ts) > 0 /\ ts[1] = "-"
        digits == IF neg THEN Tail(ts) ELSE ts
        ok     == Len(digits) > 0 /\ \A p \in 1..Len(digits) : IsDigit(digits[p])
    IN  [ok |-> ok,
         value |-> IF ~ok THEN 0 ELSE IF neg THEN 0 - NatOf(digits) ELSE NatOf(digits)]

Num(n) == [ok |-> TRUE, value |-> n]

\* The positioned node that starts at position p (an ItemLeft token) of out.
NodeAt(out, p) ==
    LET top  == FirstAfter(out, ItemTop, p)
        size == FirstAfter(out, ItemFontSize, top)
        fam  == FirstAfter(out, ItemFontFamily, size)
        body == FirstAfter(out, ItemBody, fam)
        stop == FirstAfter(out, ItemClose, body)
    IN  [left     |-> ParseNum(Between(out, p, top)),
         top      |-> ParseNum(Between(out, top, size)),
         fontSize |-> ParseNum(Between(out, size, fam)),
         fontName |-> Between(out, fam, body),
         text     |-> Between(out, body, stop)]

\* The nodes of out between positions from and to, in output order.
NodesBetween(out, from, to) ==
    LET ps == Positions(SubSeq(out, 1, to), ItemLeft)
        in == SelectSeq(ps, LAMBDA p : p > from)
    IN  [n \in 1..Len(in) |-> NodeAt(out, in[n])]

\* ----------------------------------------------------------- about a call

\* The promise of extractTextFromPDF was resolved with a string.
HasResult(c) == calls[c].pc \in {"resolved", "done"}

\* processPDF has not reached the end of its finally block.
InFlight(c) == calls[c].pc \notin {"done", "failed"}

Output(c) == calls[c].settled.text

\* The page indices getPage was called with, in call order.
PagesVisited(c) ==
    LET calledAt == SelectSeq(calls[c].log,
                              LAMBDA e : e[1] = "getPage" /\ e[3] = "call")
    IN  [n \in 1..Len(calledAt) |-> calledAt[n][2]]

\* A page fetch or text-content fetch of call c has failed.
FetchFailed(c) == \E p \in 1..Len(calls[c].log) : calls[c].log[p][3] = "failed"

\* The first request of call c that failed, as logged: <<op, page, "failed">>.
FirstFailure(c) ==
    calls[c].log[Min({ p \in 1..Len(calls[c].log) : calls[c].log[p][3] = "failed" })]

\* The page whose page fetch or text-content fetch failed first.
FailedPage(c) == FirstFailure(c)[2]

RECURSIVE SpaceJoined(_)
\* The texts of items, a blank between neighbours.
SpaceJoined(items) ==
    IF Len(items) = 0 THEN << >>
    ELSE IF Len(items) = 1 THEN items[1].str
    ELSE SpaceJoined(SubSeq(items, 1, Len(items) - 1))
            \o <<" ">> \o items[Len(items)].str

\* ------------------------------------------------------------------ claims

\* C1: in the text draft, an extraction that yields a result has asked for
\* the pages 1..N in that order, and its result is N page segments, each
\* followed by the page separator (so also the last one, for every document);
\* segment k is the texts of page k's items in source order with one blank
\* between neighbours.
C1_TextSegments ==
    draft = "text" =>
        \A c \in CallIds :
            HasResult(c) =>
                LET pdf  == GetDocument(calls[c].file)
                    n    == Len(pdf.pages)
                    segs == SplitOn(Output(c), "\n\n")
                IN  /\ PagesVisited(c) = [k \in 1..n |-> k]
                    /\ Len(segs) = n + 1
                    /\ segs[n + 1] = << >>
                    /\ \A k \in 1..n : segs[k] = SpaceJoined(pdf.pages[k].items)

\* C1's case: a page without items followed by a page with two items came
\* out as an empty segment and a segment of two texts, each with its separator.
C1_Witness ==
    /\ draft = "text"
    /\ \E c \in CallIds :
        /\ calls[c].pc = "done"
        /\ calls[c].file.doc = [pages |-> SubSeq(BasePages, 3, 4)]
        /\ extractedText = <<"\n\n", "a", "<", "b", " ", "c", " ", "d", "\n\n">>

\* The scenario's two pages come out as "Hello\n\nWorld\n\n".
C1_ScenarioReached ==
    /\ draft = "text"
    /\ \E c \in CallIds :
        /\ calls[c].pc = "done"
        /\ calls[c].file.doc = ScenarioDoc
        /\ extractedText = <<"H", "e", "l", "l", "o", "\n\n",
                             "W", "o", "r", "l", "d", "\n\n">>

\* The declared width and height of the page container that opens at
\* position p of out.
DeclaredSize(out, p) ==
    LET mid  == FirstAfter(out, PageOpenHeight, p)
        stop == FirstAfter(out, PageOpenEnd, mid)
    IN  [width  |-> ParseNum(Between(out, p, mid)),
         height |-> ParseNum(Between(out, mid, stop))]

\* C2: in the layout draft, a result holds exactly N page containers, the
\* first at the start, each next one right after the close of the one before,
\* the last close at the end; container k declares the viewport width and
\* height of page k and holds the texts of page k's items in their order.
C2_LayoutBlocks ==
    draft = "layout" =>
        \A c \in CallIds :
            HasResult(c) =>
                LET pdf    == GetDocument(calls[c].file)
                    n      == Len(pdf.pages)
                    out    == Output(c)
                    opens  == Positions(out, PageOpenWidth)
                    closes == Positions(out, PageClose)
                IN  /\ PagesVisited(c) = [k \in 1..n |-> k]
                    /\ Len(opens) = n
                    /\ Len(closes) = n
                    /\ opens[1] = 1
                    /\ closes[n] = Len(out)
                    /\ \A k \in 1..(n - 1) : opens[k + 1] = closes[k] + 1
                    /\ \A k \in 1..n :
                        LET page  == pdf.pages[k]
                            nodes == NodesBetween(out, opens[k], closes[k])
                        IN  /\ opens[k] < closes[k]
                            /\ DeclaredSize(out, opens[k])
                                 = [width  |-> Num(page.viewport.width),
                                    height |-> Num(page.viewport.height)]
                            /\ [j \in 1..Len(nodes) |-> nodes[j].text]
                                 = [j \in 1..Len(page.items) |-> page.items[j].str]

\* C2's case: a two-page document came out as two containers, one of them
\* with two items.
C2_Witness ==
    /\ draft = "layout"
    /\ \E c \in CallIds :
        /\ calls[c].pc = "done"
        /\ calls[c].file.doc = [pages |-> SubSeq(BasePages, 3, 4)]
        /\ Len(Positions(extractedText, PageOpenWidth)) = 2
        /\ Len(Positions(extractedText, ItemLeft)) = 2

\* The items of a document with the viewport height of their page, in page
\* order and, within a page, in source order.
RECURSIVE PlacedItems(_)
PlacedItems(pages) ==
    IF Len(pages) = 0 THEN << >>
    ELSE LET page == pages[Len(pages)]
         IN  PlacedItems(SubSeq(pages, 1, Len(pages) - 1))
                \o [j \in 1..Len(page.items) |->
                       [item |-> page.items[j], H |-> page.viewport.height]]

\* C3: in the layout draft, the node of an item with transform [a,b,c,d,e,f]
\* on a page of viewport height H declares left e, top H - f and font size a;
\* the scenario's nodes are at (10, 12) with font size 12 and at (5, 400)
\* with font size 10.
C3_NodePositions ==
    draft = "layout" =>
        \A c \in CallIds :
            HasResult(c) =>
                LET pdf    == GetDocument(calls[c].file)
                    out    == Output(c)
                    nodes  == NodesBetween(out, 0, Len(out))
                    placed == PlacedItems(pdf.pages)
                IN  /\ Len(nodes) = Len(placed)
                    /\ \A n \in 1..Len(placed) :
                        LET t == placed[n].item.transform
                        IN  /\ nodes[n].left = Num(t[5])
                            /\ nodes[n].top = Num(placed[n].H - t[6])
                            /\ nodes[n].fontSize = Num(t[1])
                    /\ pdf = ScenarioDoc =>
                        /\ nodes[1].left = Num(10) /\ nodes[1].top = Num(12)
                        /\ nodes[1].fontSize = Num(12)
                        /\ nodes[2].left = Num(5) /\ nodes[2].top = Num(400)
                        /\ nodes[2].fontSize = Num(10)

\* C3's case: the scenario came out, its second node at top 400.
C3_Witness ==
    /\ draft = "layout"
    /\ \E c \in CallIds :
        /\ calls[c].pc = "done"
        /\ calls[c].file.doc = ScenarioDoc
        /\ NodesBetween(extractedText, 0, Len(extractedText))[2].top = Num(400)

\* An item above its viewport comes out with top -10, one on the upper edge
\* with top 0.
C3_NegativeTopReached ==
    /\ draft = "layout"
    /\ \E c \in CallIds :
        /\ calls[c].pc = "done"
        /\ calls[c].file.doc = [pages |-> SubSeq(BasePages, 4, 4)]
        /\ NodesBetween(extractedText, 0, Len(extractedText))[1].top = Num(0 - 10)
        /\ NodesBetween(extractedText, 0, Len(extractedText))[2].top = Num(0)

\* err is a new error built around cause that names page k.
Wraps(err, cause, k) ==
    /\ err # cause
    /\ {"cause", "page"} \subseteq DOMAIN err
    /\ err.cause = cause
    /\ err.page = k

\* C4 as claimed: when the page fetch or text-content fetch of page k fails,
\* the promise is rejected with an error that wraps the engine's error and
\* names page k, and it is never resolved.
C4_ErrorWrapsAndNamesPage ==
    \A c \in CallIds :
        FetchFailed(c) =>
            /\ calls[c].settled.kind = "rejected"
            /\ Wraps(calls[c].settled.error, calls[c].thrown, FailedPage(c))

\* What the code does instead when the page fetch or text-content fetch of
\* page k fails: the promise is rejected with the engine's own error, handed
\* on as it was thrown (no wrapper, no page index added); it is never resolved
\* with a string, the call stores no text, and the toast of processPDF
\* carries the engine's message.
EngineErrorPassedOn ==
    \A c \in CallIds :
        FetchFailed(c) =>
            /\ calls[c].thrown = EngineError(FirstFailure(c)[1])
            /\ calls[c].settled = Rejected(calls[c].thrown)
            /\ calls[c].pc \in {"rejected", "failed"}
            /\ calls[c].writes = <<Empty>>
            /\ calls[c].pc = "failed" =>
                \E t \in 1..Len(toasts) :
                    toasts[t] = Toast("Error",
                                      <<"Failed to extract text from PDF. ",
                                        calls[c].thrown.message>>,
                                      "error")

\* The text-content fetch of page 2 failed and processPDF has reported it.
FetchFailureReached ==
    \E c \in CallIds :
        /\ calls[c].pc = "failed"
        /\ FetchFailed(c)
        /\ FirstFailure(c) = Ev("getTextContent", 2, "failed")

\* C5: once the page fetch or text-content fetch of page k has failed, the log
\* of the call ends with that failure and holds no request for a page above
\* k, in every later state; the promise is rejected and carries no text, the
\* call writes nothing to extractedText but the reset, and the text gathered
\* from the pages before k is not what extractedText holds.
C5_StopsAtFirstFailure ==
    \A c \in CallIds :
        FetchFailed(c) =>
            LET log == calls[c].log
            IN  /\ log[Len(log)] = FirstFailure(c)
                /\ \A p \in 1..Len(log) : log[p][2] <= FailedPage(c)
                /\ calls[c].pc \in {"rejected", "failed"}
                /\ calls[c].settled.kind = "rejected"
                /\ calls[c].settled.text = Empty
                /\ calls[c].writes = <<Empty>>
                /\ calls[c].acc # Empty => extractedText # calls[c].acc
                /\ Len(calls) = 1 => extractedText = Empty

\* C5's case: page 1 was read, the fetch of page 2 failed, the call has ended
\* and its partial text sits in the dead accumulator only.
C5_Witness ==
    \E c \in CallIds :
        /\ calls[c].pc = "failed"
        /\ FetchFailed(c)
        /\ FailedPage(c) = 2
        /\ calls[c].acc # Empty
        /\ extractedText = Empty

\* The p-th entry of the log of an extraction in which nothing fails.
Canon(p) ==
    LET page == ((p - 1) \div 4) + 1
        r    == (p - 1) % 4
    IN  CASE r = 0 -> <<"getPage", page, "call">>
          [] r = 1 -> <<"getPage", page, "done">>
          [] r = 2 -> <<"getTextContent", page, "call">>
          [] r = 3 -> <<"getTextContent", page, "done">>

\* Requests of call c the engine has not answered.
Outstanding(c) ==
    Len(SelectSeq(calls[c].log, LAMBDA e : e[3] = "call"))
        - Len(SelectSeq(calls[c].log, LAMBDA e : e[3] # "call"))

\* C6: the engine requests of a call are, in order, getPage(1),
\* getTextContent of page 1, getPage(2), ..., each issued after the one before
\* was answered (at most one is outstanding); a call that yields a result
\* has fetched every page 1..N exactly once.
C6_SequentialFetches ==
    \A c \in CallIds :
        LET log == calls[c].log
        IN  /\ \A p \in 1..Len(log) :
                \/ log[p] = Canon(p)
                \/ /\ p = Len(log)
                   /\ Canon(p)[3] = "done"
                   /\ log[p] = <<Canon(p)[1], Canon(p)[2], "failed">>
            /\ Outstanding(c) \in {0, 1}
            /\ HasResult(c) =>
                /\ Len(log) = 4 * NumPages(GetDocument(calls[c].file))
                /\ Outstanding(c) = 0

\* C6's case: a two-page extraction has ended with all eight log entries.
C6_Witness ==
    \E c \in CallIds :
        /\ calls[c].pc = "done"
        /\ Len(calls[c].log) = 8
        /\ PagesVisited(c) = <<1, 2>>

\* C7: two extractions of the same file by the same draft that yield a result
\* yield the same one, and the document a call walks is the document of its
\* file, unchanged, from the load to the end.
C7_Idempotent ==
    /\ \A c1, c2 \in CallIds :
        (HasResult(c1) /\ HasResult(c2) /\ calls[c1].file = calls[c2].file)
            => Output(c1) = Output(c2)
    /\ \A c \in CallIds :
        /\ calls[c].file \in disk
        /\ calls[c].pc \notin {"reading", "awaitDoc"} /\ calls[c].pdf # NoDoc
            => calls[c].pdf = GetDocument(calls[c].file)

\* C7's case: the same file was extracted twice, to the end.
C7_Witness ==
    \E c1, c2 \in CallIds :
        /\ c1 # c2
        /\ calls[c1].pc = "done"
        /\ calls[c2].pc = "done"
        /\ calls[c1].file = calls[c2].file
        /\ Output(c1) # Empty
        /\ extractedText = Output(c2)

\* The characters that mean something to an HTML parser.
MarkupChars == {"<", ">", "&", "\"", "'"}

\* C8 as claimed: in the layout draft no markup character of an item's text
\* or font name reaches the output as it is (document characters are the
\* tokens of length one).
C8_MarkupEscaped ==
    draft = "layout" =>
        \A c \in CallIds :
            HasResult(c) =>
                \A p \in 1..Len(Output(c)) : Output(c)[p] \notin MarkupChars

\* C9 as claimed: isLoading is true whenever a processPDF call is in flight.
C9_LoadingWhileInFlight ==
    (\E c \in CallIds : InFlight(c)) => isLoading

\* Call c leaves processPDF through the catch block in this step.
EndsInCatch(c) == calls[c].pc = "rejected" /\ calls'[c].pc = "failed"

\* processPDF is entered in this step and finds the library missing: a file
\* was chosen in the browse dialog and was not turned away as no PDF.
RefusedCall ==
    /\ ~pdfjsLib
    /\ events' = events + 1
    /\ uncaught' = uncaught
    /\ toasts' # Append(toasts,
                        Toast("Error", <<"Please upload a PDF file">>, "error"))

\* Every call that passed the library guard reaches the end of processPDF.
EveryCallEnds ==
    \A c \in 1..MaxCalls :
        (Len(calls) >= c) ~> (Len(calls) >= c /\ ~InFlight(c))

\* The step that ends a call sets isLoading to false.
EndClearsLoading ==
    [][\A c \in CallIds : (InFlight(c) /\ ~InFlight(c)') => ~isLoading']_vars

\* The step that ends a failed call dispatches the error toast and writes
\* nothing to extractedText.
FailureToastsAndWritesNothing ==
    [][\A c \in CallIds :
         EndsInCatch(c) =>
            /\ toasts' = Append(toasts,
                           Toast("Error",
                                 <<"Failed to extract text from PDF. ",
                                   calls[c].settled.error.message>>,
                                 "error"))
            /\ extractedText' = extractedText
            /\ calls'[c].writes = <<Empty>>]_vars

\* A call made while the library is missing dispatches the error toast,
\* changes neither isLoading nor extractedText and starts nothing.
RefusedCallChangesNothing ==
    [][RefusedCall =>
          /\ toasts' = Append(toasts,
                         Toast("Error",
                               <<"PDF.js library not loaded yet. Please try again.">>,
                               "error"))
          /\ UNCHANGED <<isLoading, extractedText, calls>>]_vars

\* When a failed call ends, extractedText is the empty string.
FailureLeavesTextEmpty ==
    [][\A c \in CallIds : EndsInCatch(c) => extractedText' = Empty]_vars

\* C10 as claimed: every call that starts with the library loaded ends and
\* sets isLoading to false; a failed call dispatches an error toast and ends
\* with extractedText the empty string; a call made while the library is
\* missing dispatches an error toast and changes neither isLoading nor
\* extractedText.
C10_EveryCallSettles ==
    /\ EveryCallEnds
    /\ EndClearsLoading
    /\ FailureToastsAndWritesNothing
    /\ RefusedCallChangesNothing
    /\ FailureLeavesTextEmpty

\* What of C10 holds under every interleaving: all of it but the value of
\* extractedText at the end of a failed call.
C10_PerCallEffects ==
    /\ EveryCallEnds
    /\ EndClearsLoading
    /\ FailureToastsAndWritesNothing
    /\ RefusedCallChangesNothing

=============================================================================
